---- MODULE Spec2Model ----
\* ArtDID Registry API (Express): the route handlers of index.ts and the
\* BlockchainService of services/blockchain.ts, as a state machine.
\*
\* Strings that the code takes apart (DIDs, addresses) are sequences of
\* one-character strings, so that split(':'), the template literal
\* `did:art:hkust:${id}` and the address regular expression are computed on
\* characters.  Opaque values (metadata, error texts) are atoms.
EXTENDS Integers, Sequences, FiniteSets, TLC

\* ---------------------------------------------------------------- bounds
\* Number of HTTP requests handled in one behaviour (each may be in flight
\* concurrently with the others).
MaxReq == 2
\* Longest segment list from which an input of the codec is joined.
MaxSegs == 5

\* ---------------------------------------------------------------- strings
COLON == ":"
DID_LIT == <<"d", "i", "d">>
ART_LIT == <<"a", "r", "t">>
HKUST_LIT == <<"h", "k", "u", "s", "t">>

\* String.prototype.split(':'): the segments between the separators; the empty
\* string splits into one empty segment.
RECURSIVE SplitAcc(_, _, _)
SplitAcc(s, cur, acc) ==
    IF s = <<>> THEN Append(acc, cur)
    ELSE IF Head(s) = COLON THEN SplitAcc(Tail(s), <<>>, Append(acc, cur))
    ELSE SplitAcc(Tail(s), Append(cur, Head(s)), acc)

Split(s) == SplitAcc(s, <<>>, <<>>)

\* Array.prototype.join(':'), used to write the inputs down.
RECURSIVE Join(_)
Join(segs) ==
    IF segs = <<>> THEN <<>>
    ELSE IF Len(segs) = 1 THEN segs[1]
    ELSE segs[1] \o <<COLON>> \o Join(Tail(segs))

\* `!did`: undefined (parameter absent) and "" are both falsy; both are <<>>.
Falsy(s) == s = <<>>

\* ---------------------------------------------------------------- DID codec
\* The guard of the three parsing handlers:
\*   parts.length < 4 || parts[0] !== 'did' || parts[1] !== 'art' || parts[2] !== 'hkust'
InvalidFormat(parts) ==
    \/ Len(parts) < 4
    \/ parts[1] # DID_LIT
    \/ parts[2] # ART_LIT
    \/ parts[3] # HKUST_LIT

\* const hash = parts[3]  (zero-based: the fourth segment)
RecordIdOf(parts) == parts[4]

\* did: `did:art:hkust:${result.did}`
FormatDid(recordId) ==
    DID_LIT \o <<COLON>> \o ART_LIT \o <<COLON>> \o HKUST_LIT \o <<COLON>> \o recordId

\* ---------------------------------------------------------------- values
\* /^0x[a-fA-F0-9]{40}$/ : the number of hex digits of an address
AddrHexLen == 40
HexChars == {"0", "1", "2", "3", "4", "5", "6", "7", "8", "9",
             "a", "b", "c", "d", "e", "f", "A", "B", "C", "D", "E", "F"}

\* transfer.newOwner.match(/^0x[a-fA-F0-9]{40}$/)
IsEthAddress(s) ==
    /\ Len(s) = 2 + AddrHexLen
    /\ s[1] = "0"
    /\ s[2] = "x"
    /\ \A i \in 3..Len(s) : s[i] \in HexChars

Addr(c) == <<"0", "x">> \o [i \in 1..AddrHexLen |-> c]

\* The account of PRIVATE_KEY: the sender of every transaction of this server.
WALLET == Addr("a")
ADDR_B == Addr("b")
ADDR_C == Addr("c")
\* "0x" followed by 40 characters, one of them no hex digit
ADDR_NOHEX == <<"0", "x", "g">> \o [i \in 1..(AddrHexLen - 1) |-> "b"]
\* "0x" followed by fewer than 40 hex digits
ADDR_SHORT == <<"0", "x", "b">>
NA == <<"N", "/", "A">>

\* Identifiers the ledger assigns: ethers.hexlify(topics[1]), "0x" and hex
\* digits (bytes32 in the contract; one digit here).
IdDigits == <<"1", "2", "3", "4", "5", "6", "7", "8", "9">>
IdOf(n) == <<"0", "x", IdDigits[n]>>

\* Metadata is opaque; "" stands for missing or empty metadata (falsy).
Metas == {"", "X"}

NoBlob == [meta |-> "", standard |-> "", version |-> 0, previousVersion |-> 0,
           created |-> 0]
\* ipfsMetadata = null
NullBlob == [meta |-> "null", standard |-> "", version |-> 0,
             previousVersion |-> 0, created |-> 0]

\* register: { ...metadata, standard: "Karen 1.0" }
RegisterBlob(m) ==
    [meta |-> m, standard |-> "Karen 1.0", version |-> 0, previousVersion |-> 0,
     created |-> 0]

\* update: { ...metadata, standard: "Karen 2.0", created, updated,
\*           version: currentVersion + 1, previousVersion: currentVersion }
\* (`updated: now` is the wall clock and is left out of the blob.)
UpdateBlob(m, full) ==
    [meta |-> m, standard |-> "Karen 2.0", version |-> Len(full.cid) + 1,
     previousVersion |-> Len(full.cid), created |-> full.created_at]

\* The content address of a blob: a function of its bytes, and injective.
NoCid == <<>>
CidOf(blob) == <<"Qm", blob>>
BlobOf(cid) == cid[2]

\* The public gateways of fetchFromIPFS, in list order; source 0 is the
\* operator's own node.
NumGateways == 4
PRIMARY == 0
\* no source: the value of `served` while no source has answered
NoSource == PRIMARY - 1

\* ---------------------------------------------------------------- errors
\* An error message is a sequence of text fragments; wrapping prepends one.
NoMsg == <<>>
FaultMsgs == {"timeout", "header not found"}
REVERT_NOT_OWNER == "execution reverted: Only current owner can transfer"
REVERT_DUP_OWNER == "execution reverted: Address is already an owner"
REVERT_NO_RECORD == "execution reverted: Record does not exist"
REVERT_AT_MINE == "transaction execution reverted"

\* String.prototype.includes(needle) over the fragments of a message
FragmentsWith(needle) ==
    CASE needle = "not found" -> {"DID not found", "header not found"}
      [] needle = "Only current owner can transfer" -> {REVERT_NOT_OWNER}
      [] needle = "Address is already an owner" -> {REVERT_DUP_OWNER}
      [] OTHER -> {}

Includes(msg, needle) == \E i \in DOMAIN msg : msg[i] \in FragmentsWith(needle)

\* ---------------------------------------------------------------- ledger
\* The registry contract behind this.contract.  A record that was never set
\* reads as empty histories.
EmptyRecord == [cid |-> <<>>, owner |-> <<>>, created_at |-> 0, updated_at |-> 0]

GetRecord(l, id) == IF id \in DOMAIN l THEN l[id] ELSE EmptyRecord

Last(seq) == seq[Len(seq)]

InSeq(x, seq) == \E i \in DOMAIN seq : seq[i] = x

NoTx == [kind |-> "none", id |-> <<>>, cid |-> NoCid, newOwner |-> <<>>]

\* The revert reason of a transaction on ledger state l, or "" when it applies.
RevertReason(l, tx) ==
    CASE tx.kind = "setRecord" -> ""
      [] tx.kind = "updateRecord" ->
            IF tx.id \in DOMAIN l THEN "" ELSE REVERT_NO_RECORD
      [] tx.kind = "transferOwnership" ->
            LET owners == GetRecord(l, tx.id).owner IN
            IF owners = <<>> \/ Last(owners) # WALLET THEN REVERT_NOT_OWNER
            ELSE IF InSeq(tx.newOwner, owners) THEN REVERT_DUP_OWNER
            ELSE ""
      [] OTHER -> ""

\* The identifier the contract assigns to the next new record.
NextId(l) == IdOf(Cardinality(DOMAIN l) + 1)

Extend(l, id, rec) == [k \in DOMAIN l \cup {id} |-> IF k = id THEN rec ELSE l[k]]

\* The ledger after transaction tx is mined at block time t.
Apply(l, tx, t) ==
    CASE tx.kind = "setRecord" ->
            Extend(l, NextId(l),
                   [cid |-> <<tx.cid>>, owner |-> <<WALLET>>,
                    created_at |-> t, updated_at |-> t])
      [] tx.kind = "updateRecord" ->
            [l EXCEPT ![tx.id].cid = Append(@, tx.cid), ![tx.id].updated_at = t]
      [] tx.kind = "transferOwnership" ->
            [l EXCEPT ![tx.id].owner = Append(@, tx.newOwner),
                      ![tx.id].updated_at = t]
      [] OTHER -> l

\* ---------------------------------------------------------------- state
VARIABLES
    ledger,          \* the registry contract: record id -> record
    height,          \* block time of the ledger
    store,           \* content addresses held by the content network
    ipfsConfigured,  \* process.env.IPFS_API_URL is set
    req,             \* the requests: inputs, position, locals, calls, response
    budget,          \* requests that may still arrive
    codec            \* the DID codec applied to one input (CodecSpec)

vars == <<ledger, height, store, ipfsConfigured, req, budget, codec>>

Slots == 1..MaxReq

NoResp ==
    [did |-> <<>>, cid |-> NoCid, blockchainData |-> EmptyRecord,
     ipfsMetadata |-> NullBlob, ipfsError |-> NoMsg, exists |-> FALSE,
     version |-> 0, previousCid |-> NoCid, previousOwner |-> <<>>,
     currentOwner |-> <<>>, totalOwners |-> 0, error |-> NoMsg]

Idle ==
    [op |-> "none", did |-> <<>>, meta |-> "", newOwner |-> <<>>, pc |-> "idle",
     hash |-> <<>>, full |-> EmptyRecord, enhanced |-> NoBlob, cid |-> NoCid,
     tx |-> NoTx, minedId |-> <<>>, inflight |-> {}, attempts |-> <<>>,
     served |-> NoSource, applied |-> 0, verdict |-> "",
     calls |-> <<>>, status |-> 0, resp |-> NoResp]

CodecIdle == [pc |-> "off", input |-> <<>>, parts |-> <<>>, accepted |-> FALSE,
              recordId |-> <<>>, formatted |-> <<>>]

\* The DID strings a client sends.
DidInputs ==
    { <<>>,                                              \* absent
      FormatDid(IdOf(1)),                                \* did:art:hkust:0x1
      FormatDid(<<>>),                                   \* did:art:hkust:
      Join(<<DID_LIT, ART_LIT, HKUST_LIT>>),             \* did:art:hkust
      Join(<<DID_LIT, <<"w", "e", "b">>, HKUST_LIT, IdOf(1)>>),  \* did:web:hkust:0x1
      FormatDid(IdOf(1)) \o <<COLON, "z">> }             \* did:art:hkust:0x1:z

VALID_DID == FormatDid(IdOf(1))

\* GET /check takes the string as it comes.
CheckInputs == { <<>>, VALID_DID, IdOf(1) }

OwnerInputs == { <<>>, ADDR_B, ADDR_SHORT, ADDR_NOHEX, WALLET }

\* PUT /update bodies { did, metadata }
UpdateInputs ==
    { <<d, "X">> : d \in DidInputs } \cup { <<VALID_DID, "">> }

\* POST /transfer bodies { did, newOwner }
TransferInputs ==
    { <<d, ADDR_B>> : d \in DidInputs } \cup { <<VALID_DID, o>> : o \in OwnerInputs }

\* The ledger and the content network outlive the process: at start-up the
\* registry is empty, or holds a record that an earlier registration through
\* this service left there.
SeedCid == CidOf(RegisterBlob("X"))
SeedLedger ==
    Extend(<<>>, IdOf(1), [cid |-> <<SeedCid>>, owner |-> <<WALLET>>,
                           created_at |-> 1, updated_at |-> 1])

Init ==
    /\ \/ ledger = <<>> /\ height = 0 /\ store = {}
       \/ ledger = SeedLedger /\ height = 1 /\ store = {SeedCid}
    /\ ipfsConfigured \in BOOLEAN
    /\ req = [s \in Slots |-> Idle]
    /\ budget = MaxReq
    /\ codec = CodecIdle

\* ---------------------------------------------------------------- responses
\* res.status(code).json({ success: false, error })
Fail(r, code, msg) ==
    [r EXCEPT !.pc = "done", !.status = code, !.resp.error = msg,
              !.inflight = {}]

\* res.json(body): HTTP 200
Succeed(r, body) == [r EXCEPT !.pc = "done", !.status = 200, !.resp = body]

\* A request arrives at the lowest unused slot.
CanStart(s) ==
    /\ budget > 0
    /\ req[s].op = "none"
    /\ \A t \in Slots : t < s => req[t].op # "none"

Issue(r, call) == [r EXCEPT !.calls = Append(@, call)]

\* ---------------------------------------------------------------- catch blocks
\* The catch block of each BlockchainService method rethrows with a prefix.
ServicePrefix(r) ==
    CASE r.op = "resolve" -> "Failed to resolve DID: "
      [] r.op = "check" -> "Failed to check DID: "
      [] r.op = "register" -> "Blockchain transaction failed: "
      [] r.op = "update" /\ r.pc = "read" -> "Failed to get full record: "
      [] r.op = "update" -> "Update transaction failed: "
      [] r.op = "transfer" /\ r.pc = "reread" -> "Failed to get full record: "
      [] r.op = "transfer" /\ r.pc = "owner" -> "Failed to get current owner: "
      [] r.op = "transfer" -> "Ownership transfer failed: "
      [] OTHER -> ""

Wrap(r, text) == <<ServicePrefix(r), text>>

\* Mutant of ResolveCatch: every error is answered 500.
MutResolveCatch(r, msg) == Fail(r, 500, msg)

\* GET /resolve, catch: 404 when the message includes 'not found', else 500
ResolveCatch(r, msg) ==
    IF Includes(msg, "not found") THEN Fail(r, 404, msg) ELSE Fail(r, 500, msg)

\* Mutant of TransferCatch: every error of a transfer is answered 500.
MutTransferCatch(r, msg) == Fail(r, 500, msg)

\* POST /transfer, catch: 403, 400 or 500 by the text of the message
TransferCatch(r, msg) ==
    IF Includes(msg, "Only current owner can transfer") THEN Fail(r, 403, msg)
    ELSE IF Includes(msg, "Address is already an owner") THEN Fail(r, 400, msg)
    ELSE Fail(r, 500, msg)

\* The catch block of the handler of request r.
HandlerCatch(r, msg) ==
    CASE r.op = "resolve" -> ResolveCatch(r, msg)
      [] r.op = "transfer" -> TransferCatch(r, msg)
      [] OTHER -> Fail(r, 500, msg)

\* ---------------------------------------------------------------- GET /resolve
StartResolve(s, did) ==
    /\ CanStart(s)
    /\ LET r == [Idle EXCEPT !.op = "resolve", !.did = did]
           parts == Split(did)
       IN  req' = [req EXCEPT ![s] =
             IF Falsy(did) THEN Fail(r, 400, <<"DID parameter is required">>)
             ELSE IF InvalidFormat(parts) THEN Fail(r, 400, <<"Invalid DID format">>)
             ELSE Issue([r EXCEPT !.pc = "read", !.hash = RecordIdOf(parts)],
                        "getFullRecord")]
    /\ budget' = budget - 1
    /\ UNCHANGED <<ledger, height, store, ipfsConfigured, codec>>

\* Mutant of FirstSource: the own node is never asked.
MutFirstSource == PRIMARY + 1

\* fetchFromIPFS up to its first await: the own node when IPFS_API_URL is set,
\* else the first public gateway.
FirstSource == IF ipfsConfigured THEN PRIMARY ELSE 1

\* Mutant of BeginFetch: the content is uploaded once more before it is fetched.
MutBeginFetch(r) ==
    [r EXCEPT !.pc = "fetch", !.inflight = {FirstSource},
              !.attempts = Append(@, FirstSource),
              !.calls = @ \o <<"add", "fetch">>]

BeginFetch(r) ==
    [r EXCEPT !.pc = "fetch", !.inflight = {FirstSource},
              !.attempts = Append(@, FirstSource), !.calls = Append(@, "fetch")]

\* BlockchainService.resolveDID after contract.getFullRecord returned, and the
\* handler up to the first fetch.
ResolveRead(s) ==
    /\ req[s].op = "resolve"
    /\ req[s].pc = "read"
    /\ LET r == req[s]
           fullRecord == GetRecord(ledger, r.hash)
       IN  req' = [req EXCEPT ![s] =
             IF fullRecord.cid = <<>>
             THEN HandlerCatch(r, Wrap(r, "DID not found"))
             ELSE BeginFetch([r EXCEPT !.full = fullRecord,
                                       !.cid = Last(fullRecord.cid)])]
    /\ UNCHANGED <<ledger, height, store, ipfsConfigured, budget, codec>>

ResolveBody(r, metadata, error) ==
    [NoResp EXCEPT !.did = r.did, !.cid = r.cid, !.blockchainData = r.full,
                   !.currentOwner = IF r.full.owner = <<>> THEN <<>>
                                    ELSE Last(r.full.owner),
                   !.ipfsMetadata = metadata, !.ipfsError = error]

\* Mutant of FetchOk: the result is kept but the loop goes on to the next
\* gateway instead of returning.
MutFetchOk(s) ==
    /\ req[s].pc = "fetch"
    /\ req[s].cid \in store
    /\ \E k \in req[s].inflight :
         LET r == [req[s] EXCEPT !.inflight = @ \ {k}, !.served = k]
         IN  req' = [req EXCEPT ![s] =
               IF k < NumGateways
               THEN [r EXCEPT !.inflight = @ \cup {k + 1},
                              !.attempts = Append(@, k + 1)]
               ELSE Succeed(r, ResolveBody(r, BlobOf(r.cid), NoMsg))]
    /\ UNCHANGED <<ledger, height, store, ipfsConfigured, budget, codec>>

\* The awaited source answers ok with a JSON body: fetchFromIPFS returns it.
FetchOk(s) ==
    /\ req[s].pc = "fetch"
    /\ req[s].cid \in store
    /\ \E k \in req[s].inflight :
         LET r == [req[s] EXCEPT !.inflight = @ \ {k}, !.served = k]
         IN  req' = [req EXCEPT ![s] =
               Succeed(r, ResolveBody(r, BlobOf(r.cid), NoMsg))]
    /\ UNCHANGED <<ledger, height, store, ipfsConfigured, budget, codec>>

\* Mutant of FetchFail: without the handler's inner try/catch the exhausted
\* fetch fails the request.
MutFetchFail(s) ==
    /\ req[s].pc = "fetch"
    /\ \E k \in req[s].inflight :
         LET r == [req[s] EXCEPT !.inflight = @ \ {k}]
         IN  req' = [req EXCEPT ![s] =
               IF k < NumGateways
               THEN [r EXCEPT !.inflight = @ \cup {k + 1},
                              !.attempts = Append(@, k + 1)]
               ELSE Fail(r, 500, <<"All IPFS sources failed">>)]
    /\ UNCHANGED <<ledger, height, store, ipfsConfigured, budget, codec>>

\* The awaited source fails (not ok, network error, timeout, no JSON): the next
\* source of the list, or `All IPFS sources failed` after the last one, which
\* the handler's inner catch turns into ipfsError.
FetchFail(s) ==
    /\ req[s].pc = "fetch"
    /\ \E k \in req[s].inflight :
         LET r == [req[s] EXCEPT !.inflight = @ \ {k}]
         IN  req' = [req EXCEPT ![s] =
               IF k < NumGateways
               THEN [r EXCEPT !.inflight = @ \cup {k + 1},
                              !.attempts = Append(@, k + 1)]
               ELSE Succeed(r, ResolveBody(r, NullBlob,
                                           <<"All IPFS sources failed">>))]
    /\ UNCHANGED <<ledger, height, store, ipfsConfigured, budget, codec>>

\* ---------------------------------------------------------------- GET /check
StartCheck(s, did) ==
    /\ CanStart(s)
    /\ LET r == [Idle EXCEPT !.op = "check", !.did = did]
       IN  req' = [req EXCEPT ![s] =
             IF Falsy(did) THEN Fail(r, 400, <<"DID parameter is required">>)
             ELSE Issue([r EXCEPT !.pc = "read", !.hash = did], "hasRecord")]
    /\ budget' = budget - 1
    /\ UNCHANGED <<ledger, height, store, ipfsConfigured, codec>>

\* contract.hasRecord(did) returned
CheckRead(s) ==
    /\ req[s].op = "check"
    /\ req[s].pc = "read"
    /\ req' = [req EXCEPT ![s] =
         Succeed(@, [NoResp EXCEPT !.did = req[s].did,
                                   !.exists = req[s].hash \in DOMAIN ledger])]
    /\ UNCHANGED <<ledger, height, store, ipfsConfigured, budget, codec>>

\* ---------------------------------------------------------------- POST /register
\* uploadToIPFS up to its await: POST ${IPFS_API_URL}/api/v0/add
BeginUpload(r, blob) ==
    Issue([r EXCEPT !.pc = "upload", !.enhanced = blob], "add")

StartRegister(s, meta) ==
    /\ CanStart(s)
    /\ LET r == [Idle EXCEPT !.op = "register", !.meta = meta]
       IN  req' = [req EXCEPT ![s] =
             IF meta = "" THEN Fail(r, 400, <<"Artwork metadata is required">>)
             ELSE BeginUpload(r, RegisterBlob(meta))]
    /\ budget' = budget - 1
    /\ UNCHANGED <<ledger, height, store, ipfsConfigured, codec>>

\* The ledger call that follows the upload: contract.setRecord(cid) in
\* registerArtwork, contract.updateRecord(did, newCid) in updateArtwork.
\* Mutant of CommitAfterUpload: an update calls setRecord like a register.
MutCommitAsSetRecord(r, cid) ==
    Issue([r EXCEPT !.pc = "submit", !.cid = cid,
                    !.tx = [NoTx EXCEPT !.kind = "setRecord", !.cid = cid]],
          "setRecord")

\* Mutant of CommitAfterUpload: an update commits the address it read as the
\* latest one instead of the address the upload returned.
MutCommitAfterUpload(r, cid) ==
    IF r.op = "register"
    THEN Issue([r EXCEPT !.pc = "submit", !.cid = cid,
                         !.tx = [NoTx EXCEPT !.kind = "setRecord", !.cid = cid]],
               "setRecord")
    ELSE Issue([r EXCEPT !.pc = "submit", !.cid = cid,
                         !.tx = [NoTx EXCEPT !.kind = "updateRecord",
                                             !.id = r.hash,
                                             !.cid = IF r.full.cid = <<>> THEN cid
                                                     ELSE Last(r.full.cid)]],
               "updateRecord")

CommitAfterUpload(r, cid) ==
    IF r.op = "register"
    THEN Issue([r EXCEPT !.pc = "submit", !.cid = cid,
                         !.tx = [NoTx EXCEPT !.kind = "setRecord", !.cid = cid]],
               "setRecord")
    ELSE Issue([r EXCEPT !.pc = "submit", !.cid = cid,
                         !.tx = [NoTx EXCEPT !.kind = "updateRecord",
                                             !.id = r.hash, !.cid = cid]],
               "updateRecord")

\* The node stored the blob and answered { Hash }: uploadToIPFS returns it and
\* the handler goes on to the ledger commit.
UploadOk(s) ==
    /\ req[s].pc = "upload"
    /\ ipfsConfigured
    /\ LET cid == CidOf(req[s].enhanced)
       IN  /\ store' = store \cup {cid}
           /\ req' = [req EXCEPT ![s] = CommitAfterUpload(@, cid)]
    /\ UNCHANGED <<ledger, height, ipfsConfigured, budget, codec>>

\* Mutant of UploadFail: the answer of the node is not checked, and the handler
\* commits the address of a blob the node did not store.
MutUploadUnchecked(s) ==
    /\ req[s].pc = "upload"
    /\ req' = [req EXCEPT ![s] = CommitAfterUpload(@, CidOf(@.enhanced))]
    /\ UNCHANGED <<ledger, height, store, ipfsConfigured, budget, codec>>

\* Mutant of UploadFail: the upload error is swallowed and the handler goes on
\* to the ledger commit without an address.
MutUploadFail(s) ==
    /\ req[s].pc = "upload"
    /\ req' = [req EXCEPT ![s] = CommitAfterUpload(@, NoCid)]
    /\ UNCHANGED <<ledger, height, store, ipfsConfigured, budget, codec>>

\* The upload throws (bad URL, network error, !response.ok, no Hash):
\* `IPFS upload failed`, answered 500 by the handler's catch.
UploadFail(s) ==
    /\ req[s].pc = "upload"
    /\ req' = [req EXCEPT ![s] = HandlerCatch(@, <<"IPFS upload failed: ">>)]
    /\ UNCHANGED <<ledger, height, store, ipfsConfigured, budget, codec>>

\* ---------------------------------------------------------------- PUT /update
StartUpdate(s, did, meta) ==
    /\ CanStart(s)
    /\ LET r == [Idle EXCEPT !.op = "update", !.did = did, !.meta = meta]
           parts == Split(did)
       IN  req' = [req EXCEPT ![s] =
             IF Falsy(did) \/ meta = ""
             THEN Fail(r, 400, <<"DID and metadata are required">>)
             ELSE IF InvalidFormat(parts) THEN Fail(r, 400, <<"Invalid DID format">>)
             ELSE Issue([r EXCEPT !.pc = "read", !.hash = RecordIdOf(parts)],
                        "getFullRecord")]
    /\ budget' = budget - 1
    /\ UNCHANGED <<ledger, height, store, ipfsConfigured, codec>>

\* BlockchainService.getFullRecord returned; the handler builds the new
\* metadata from it and starts the upload.
UpdateRead(s) ==
    /\ req[s].op = "update"
    /\ req[s].pc = "read"
    /\ LET fullRecord == GetRecord(ledger, req[s].hash)
       IN  req' = [req EXCEPT ![s] =
             BeginUpload([@ EXCEPT !.full = fullRecord],
                         UpdateBlob(req[s].meta, fullRecord))]
    /\ UNCHANGED <<ledger, height, store, ipfsConfigured, budget, codec>>

\* ---------------------------------------------------------------- POST /transfer
StartTransfer(s, did, newOwner) ==
    /\ CanStart(s)
    /\ LET r == [Idle EXCEPT !.op = "transfer", !.did = did, !.newOwner = newOwner]
           parts == Split(did)
       IN  req' = [req EXCEPT ![s] =
             IF Falsy(did) \/ Falsy(newOwner)
             THEN Fail(r, 400, <<"DID and newOwner are required">>)
             ELSE IF InvalidFormat(parts) THEN Fail(r, 400, <<"Invalid DID format">>)
             ELSE IF ~IsEthAddress(newOwner)
             THEN Fail(r, 400, <<"Invalid Ethereum address format">>)
             ELSE Issue([r EXCEPT !.pc = "submit", !.hash = RecordIdOf(parts),
                                  !.tx = [NoTx EXCEPT !.kind = "transferOwnership",
                                                      !.id = RecordIdOf(parts),
                                                      !.newOwner = newOwner]],
                        "transferOwnership")]
    /\ budget' = budget - 1
    /\ UNCHANGED <<ledger, height, store, ipfsConfigured, codec>>

\* Mutant of TransferReread: the response is built from the record as it was
\* before the transfer was mined.
MutTransferReread(s) ==
    /\ req[s].op = "transfer"
    /\ req[s].pc = "reread"
    /\ LET now == GetRecord(ledger, req[s].hash)
           before == [now EXCEPT !.owner = SubSeq(@, 1, Len(@) - 1)]
       IN  req' = [req EXCEPT ![s] =
             Issue([@ EXCEPT !.pc = "owner", !.full = before], "getLatestRecord")]
    /\ UNCHANGED <<ledger, height, store, ipfsConfigured, budget, codec>>

\* getFullRecord after the transfer returned; getCurrentOwner is called next.
TransferReread(s) ==
    /\ req[s].op = "transfer"
    /\ req[s].pc = "reread"
    /\ req' = [req EXCEPT ![s] =
         Issue([@ EXCEPT !.pc = "owner", !.full = GetRecord(ledger, req[s].hash)],
               "getLatestRecord")]
    /\ UNCHANGED <<ledger, height, store, ipfsConfigured, budget, codec>>

\* fullRecord.owners[fullRecord.owners.length - 2] || "N/A"
PreviousOwner(owners) ==
    IF Len(owners) < 2 \/ owners[Len(owners) - 1] = <<>> THEN NA
    ELSE owners[Len(owners) - 1]

\* getCurrentOwner returned: the success response of the transfer.
TransferOwner(s) ==
    /\ req[s].op = "transfer"
    /\ req[s].pc = "owner"
    /\ LET r == req[s]
           owners == GetRecord(ledger, r.hash).owner
           currentOwner == IF Len(owners) > 0 THEN Last(owners) ELSE <<>>
       IN  req' = [req EXCEPT ![s] =
             Succeed(r, [NoResp EXCEPT !.did = r.did,
                                       !.previousOwner = PreviousOwner(r.full.owner),
                                       !.currentOwner = currentOwner,
                                       !.totalOwners = Len(r.full.owner)])]
    /\ UNCHANGED <<ledger, height, store, ipfsConfigured, budget, codec>>

\* ---------------------------------------------------------------- transactions
\* `await this.contract.<method>(...)`: the node estimates the transaction on
\* the current state and either rejects it with the revert reason or accepts
\* it; the service then awaits tx.wait().
TxSubmit(s) ==
    /\ req[s].pc = "submit"
    /\ LET r == req[s]
           reason == RevertReason(ledger, r.tx)
       IN  req' = [req EXCEPT ![s] =
             IF reason # ""
             THEN HandlerCatch([r EXCEPT !.verdict = reason], Wrap(r, reason))
             ELSE Issue([r EXCEPT !.pc = "pending"], "wait")]
    /\ UNCHANGED <<ledger, height, store, ipfsConfigured, budget, codec>>

\* Mutant of TxMine: the transaction is applied as it was accepted at
\* submission, without the checks at mining.
MutTxMine(s) ==
    /\ req[s].pc = "pending"
    /\ LET r == req[s]
       IN  /\ IF r.tx.kind = "setRecord" \/ r.tx.id \in DOMAIN ledger
              THEN ledger' = Apply(ledger, r.tx, height + 1)
              ELSE ledger' = ledger
           /\ height' = height + 1
           /\ req' = [req EXCEPT ![s] =
                [r EXCEPT !.pc = "mined", !.applied = @ + 1,
                          !.minedId = IF r.tx.kind = "setRecord"
                                      THEN NextId(ledger) ELSE r.tx.id]]
    /\ UNCHANGED <<store, ipfsConfigured, budget, codec>>

\* The ledger mines the transaction: it is applied atomically, or it reverts
\* (status 0) and tx.wait() throws.
TxMine(s) ==
    /\ req[s].pc = "pending"
    /\ LET r == req[s]
           reason == RevertReason(ledger, r.tx)
       IN  IF reason # ""
           THEN /\ req' = [req EXCEPT ![s] =
                     HandlerCatch([r EXCEPT !.verdict = reason],
                                  Wrap(r, REVERT_AT_MINE))]
                /\ UNCHANGED <<ledger, height>>
           ELSE /\ ledger' = Apply(ledger, r.tx, height + 1)
                /\ height' = height + 1
                /\ req' = [req EXCEPT ![s] =
                     [r EXCEPT !.pc = "mined", !.applied = @ + 1,
                               !.minedId = IF r.tx.kind = "setRecord"
                                           THEN NextId(ledger) ELSE r.tx.id]]
    /\ UNCHANGED <<store, ipfsConfigured, budget, codec>>

\* The registry is shared: the account that holds a record passes it on with a
\* transaction of its own, not sent through this service.
OtherCallerTransfers ==
    /\ \E id \in DOMAIN ledger :
         /\ Last(ledger[id].owner) = ADDR_B
         /\ ~InSeq(ADDR_C, ledger[id].owner)
         /\ ledger' = Apply(ledger, [NoTx EXCEPT !.kind = "transferOwnership",
                                                 !.id = id, !.newOwner = ADDR_C],
                            height + 1)
    /\ height' = height + 1
    /\ UNCHANGED <<store, ipfsConfigured, req, budget, codec>>

\* registerArtwork after tx.wait(): the record id is topics[1] of the RecordSet
\* log of the receipt, or "" when the receipt holds no such log.
ActualDid(r, hasEvent) == IF hasEvent THEN r.minedId ELSE <<>>

RegisterBody(r, actualDid) ==
    [NoResp EXCEPT !.did = FormatDid(actualDid), !.cid = r.cid]

\* previousCid: fullRecord.cids[fullRecord.cids.length - 1]
UpdateBody(r) ==
    [NoResp EXCEPT !.did = r.did, !.cid = r.cid,
                   !.previousCid = IF r.full.cid = <<>> THEN NoCid
                                   ELSE Last(r.full.cid),
                   !.version = Len(r.full.cid) + 1]

\* tx.wait() returned the receipt: the rest of the handler up to its next await.
TxReceipt(s) ==
    /\ req[s].pc = "mined"
    /\ \E hasEvent \in BOOLEAN :
         LET r == req[s]
         IN  req' = [req EXCEPT ![s] =
               CASE r.op = "register" ->
                      Succeed(r, RegisterBody(r, ActualDid(r, hasEvent)))
                 [] r.op = "update" -> Succeed(r, UpdateBody(r))
                 [] OTHER -> Issue([r EXCEPT !.pc = "reread"], "getFullRecord")]
    /\ UNCHANGED <<ledger, height, store, ipfsConfigured, budget, codec>>

\* A ledger call in flight fails in transport or decoding: the service method
\* rethrows and the handler's catch answers.
LedgerAwaiting == {"read", "submit", "pending", "mined", "reread", "owner"}

\* Mutant of LedgerFault: a commit that faults is submitted once more.
MutLedgerFault(s, text) ==
    /\ req[s].pc \in LedgerAwaiting
    /\ req' = [req EXCEPT ![s] =
         IF @.pc \in {"submit", "pending", "mined"} /\ Len(@.calls) < 6
         THEN Issue([@ EXCEPT !.pc = "submit"], @.tx.kind)
         ELSE HandlerCatch(@, Wrap(@, text))]
    /\ UNCHANGED <<ledger, height, store, ipfsConfigured, budget, codec>>

LedgerFault(s, text) ==
    /\ req[s].pc \in LedgerAwaiting
    /\ req' = [req EXCEPT ![s] = HandlerCatch(@, Wrap(@, text))]
    /\ UNCHANGED <<ledger, height, store, ipfsConfigured, budget, codec>>

\* ---------------------------------------------------------------- behaviours
Next ==
    \/ \E s \in Slots, did \in DidInputs : StartResolve(s, did)
    \/ \E s \in Slots, did \in CheckInputs : StartCheck(s, did)
    \/ \E s \in Slots, meta \in Metas : StartRegister(s, meta)
    \/ \E s \in Slots, u \in UpdateInputs : StartUpdate(s, u[1], u[2])
    \/ \E s \in Slots, x \in TransferInputs : StartTransfer(s, x[1], x[2])
    \/ \E s \in Slots : ResolveRead(s)
    \/ \E s \in Slots : FetchOk(s)
    \/ \E s \in Slots : FetchFail(s)
    \/ \E s \in Slots : CheckRead(s)
    \/ \E s \in Slots : UploadOk(s)
    \/ \E s \in Slots : UploadFail(s)
    \/ \E s \in Slots : UpdateRead(s)
    \/ \E s \in Slots : TransferReread(s)
    \/ \E s \in Slots : TransferOwner(s)
    \/ \E s \in Slots : TxSubmit(s)
    \/ \E s \in Slots : TxMine(s)
    \/ \E s \in Slots : TxReceipt(s)
    \/ OtherCallerTransfers
    \/ \E s \in Slots, text \in FaultMsgs : LedgerFault(s, text)

Spec == Init /\ [][Next]_vars

\* Every HTTP exchange ends: the fetches of fetchFromIPFS by their
\* AbortSignal.timeout, the upload and the JSON-RPC calls by an answer or by
\* the clients' own failure.  Nothing bounds tx.wait(): a transaction that is
\* never mined is awaited for ever.
Responds(s) ==
    \/ ResolveRead(s) \/ CheckRead(s) \/ UpdateRead(s)
    \/ TransferReread(s) \/ TransferOwner(s)
    \/ FetchOk(s) \/ FetchFail(s)
    \/ UploadOk(s) \/ UploadFail(s)
    \/ TxSubmit(s) \/ TxReceipt(s)

FairSpec == Spec /\ \A s \in Slots : WF_vars(Responds(s))

\* ---------------------------------------------------------------- codec alone
\* The codec applied to one input string: parse then format (a DID a client
\* sends), or format then parse (a record id the ledger returns).
SegPool == { <<>>, DID_LIT, ART_LIT, HKUST_LIT, IdOf(1), <<"z">> }

RECURSIVE SegLists(_)
SegLists(n) ==
    IF n = 0 THEN { <<>> }
    ELSE LET shorter == SegLists(n - 1)
         IN  shorter \cup { Append(l, g) : l \in { x \in shorter : Len(x) = n - 1 },
                                           g \in SegPool }

CodecInputs == { Join(l) : l \in SegLists(MaxSegs) }

CodecInit ==
    /\ ledger = <<>>
    /\ height = 0
    /\ store = {}
    /\ ipfsConfigured = TRUE
    /\ req = [s \in Slots |-> Idle]
    /\ budget = 0
    /\ \E x \in CodecInputs, m \in {"did", "id"} :
         codec = [CodecIdle EXCEPT !.pc = m, !.input = x]

\* const parts = did.split(':'); the format guard; const hash = parts[3]
CodecParse(str) ==
    LET parts == Split(str)
    IN  [parts |-> parts,
         accepted |-> ~Falsy(str) /\ ~InvalidFormat(parts),
         recordId |-> IF ~Falsy(str) /\ ~InvalidFormat(parts)
                      THEN RecordIdOf(parts) ELSE <<>>]

\* A handler parses the DID of the request.
ParseDid ==
    /\ codec.pc = "did"
    /\ LET p == CodecParse(codec.input)
       IN  codec' = [codec EXCEPT !.pc = IF p.accepted THEN "parsed" ELSE "rejected",
                                  !.parts = p.parts, !.accepted = p.accepted,
                                  !.recordId = p.recordId]
    /\ UNCHANGED <<ledger, height, store, ipfsConfigured, req, budget>>

\* The record id of an accepted DID is formatted again.
FormatParsed ==
    /\ codec.pc = "parsed"
    /\ codec' = [codec EXCEPT !.pc = "roundtrip-did",
                              !.formatted = FormatDid(codec.recordId)]
    /\ UNCHANGED <<ledger, height, store, ipfsConfigured, req, budget>>

\* POST /register formats a record id.
FormatId ==
    /\ codec.pc = "id"
    /\ codec' = [codec EXCEPT !.pc = "formatted",
                              !.formatted = FormatDid(codec.input)]
    /\ UNCHANGED <<ledger, height, store, ipfsConfigured, req, budget>>

\* A handler parses the DID that register returned.
ParseFormatted ==
    /\ codec.pc = "formatted"
    /\ LET p == CodecParse(codec.formatted)
       IN  codec' = [codec EXCEPT !.pc = "roundtrip-id",
                                  !.parts = p.parts, !.accepted = p.accepted,
                                  !.recordId = p.recordId]
    /\ UNCHANGED <<ledger, height, store, ipfsConfigured, req, budget>>

CodecNext == ParseDid \/ FormatParsed \/ FormatId \/ ParseFormatted

CodecSpec == CodecInit /\ [][CodecNext]_vars

\* ================================================================ claims
Done(r) == r.pc = "done"
LedgerCalls == {"getFullRecord", "hasRecord", "setRecord", "updateRecord",
                "transferOwnership", "wait", "getLatestRecord"}
StoreCalls == {"add", "fetch"}
CommitCalls == {"setRecord", "updateRecord", "transferOwnership"}
Called(r, names) == \E i \in DOMAIN r.calls : r.calls[i] \in names
Parsing == {"resolve", "update", "transfer"}

\* The DID shapes the specification's parse rejects: fewer than 4 segments,
\* wrong literals in segments 1-3, or an empty fourth segment.
MalformedDid(did) ==
    LET parts == Split(did)
    IN  \/ Len(parts) < 4
        \/ parts[1] # DID_LIT \/ parts[2] # ART_LIT \/ parts[3] # HKUST_LIT
        \/ parts[4] = <<>>

\* C1 (as claimed): in Resolve, Update and Transfer every DID with fewer than
\* 4 segments, with wrong literals in segments 1-3 or with an empty record id
\* is answered 400 and reaches no ledger call.
C1_MalformedDidRejected ==
    \A s \in Slots :
        (req[s].op \in Parsing /\ MalformedDid(req[s].did))
            => (req[s].status = 400 /\ ~Called(req[s], LedgerCalls))

\* C2 (as claimed): the codec round-trips: an accepted DID has exactly 4
\* segments and formats back to itself, and every non-empty record id is
\* parsed back from its formatted DID.
C2_CodecRoundTrip ==
    /\ codec.accepted => Len(codec.parts) = 4
    /\ codec.pc = "roundtrip-did" => codec.formatted = codec.input
    /\ (codec.pc = "roundtrip-id" /\ codec.input # <<>>)
          => (codec.accepted /\ codec.recordId = codec.input)

\* C3 (as claimed): every successful Register response carries a DID whose
\* record id is non-empty and is the id the ledger assigned to the record that
\* this request's transaction created.
C3_RegisterReturnsAssignedId ==
    \A s \in Slots :
        (req[s].op = "register" /\ req[s].status = 200)
            => LET id == RecordIdOf(Split(req[s].resp.did))
               IN  /\ id # <<>>
                   /\ id = req[s].minedId
                   /\ id \in DOMAIN ledger

UploadFailedMsg == <<"IPFS upload failed: ">>

\* C4: within Register and Update the ledger commit is issued only after the
\* upload completed, it carries exactly the address the upload returned, and a
\* request whose upload failed issues no commit.
C4_CommitAfterUpload ==
    \A s \in Slots :
        req[s].op \in {"register", "update"} =>
            LET r == req[s]
            IN  /\ Called(r, CommitCalls) =>
                    /\ \E i, j \in DOMAIN r.calls :
                          i < j /\ r.calls[i] = "add" /\ r.calls[j] \in CommitCalls
                    /\ r.tx.cid = CidOf(r.enhanced)
                    /\ r.tx.cid \in store
                    /\ r.resp.error # UploadFailedMsg
                /\ r.resp.error = UploadFailedMsg =>
                    (r.status = 500 /\ ~Called(r, CommitCalls) /\ r.tx = NoTx)

C4_Witness ==
    \E s \in Slots :
        /\ req[s].op = "update"
        /\ req[s].status = 200
        /\ req[s].calls = <<"getFullRecord", "add", "updateRecord", "wait">>

\* What the specification calls a validation failure of a request.
FailsValidation(r) ==
    CASE r.op = "register" -> r.meta = ""
      [] r.op = "resolve" -> MalformedDid(r.did)
      [] r.op = "update" -> r.did = <<>> \/ r.meta = "" \/ MalformedDid(r.did)
      [] r.op = "transfer" ->
            \/ r.did = <<>> \/ r.newOwner = <<>> \/ MalformedDid(r.did)
            \/ ~IsEthAddress(r.newOwner)
      [] OTHER -> FALSE

\* C5 (as claimed): a request that fails validation ends with HTTP 400 and has
\* issued no content-store call and no ledger call.
C5_ValidationFailureNoEffects ==
    \A s \in Slots :
        FailsValidation(req[s]) => (req[s].status = 400 /\ req[s].calls = <<>>)

NotFoundMsg == <<"Failed to resolve DID: ", "DID not found">>
IsFault(msg) == Len(msg) = 2 /\ msg[2] \in FaultMsgs
IsPrefix(a, b) == Len(a) <= Len(b) /\ \A i \in DOMAIN a : a[i] = b[i]

\* C6: a Resolve whose record id has an empty content-address history is
\* answered 404 (unless the ledger read itself faults), never 200, and starts
\* no content fetch; the record of a 200 answer is one the ledger holds.
C6_UnregisteredIsNotFound ==
    \A s \in Slots :
        req[s].op = "resolve" =>
            LET r == req[s]
            IN  /\ GetRecord(ledger, r.hash).cid = <<>> =>
                    /\ r.status # 200
                    /\ r.attempts = <<>> /\ ~Called(r, StoreCalls)
                    /\ (Done(r) /\ Called(r, {"getFullRecord"})) =>
                          \/ r.status = 404 /\ r.resp.error = NotFoundMsg
                          \/ IsFault(r.resp.error)
                /\ r.resp.error = NotFoundMsg =>
                    (r.status = 404 /\ r.attempts = <<>> /\ ~Called(r, StoreCalls))
                /\ r.status = 200 =>
                    /\ r.full.cid # <<>>
                    /\ r.resp.blockchainData = r.full
                    /\ r.hash \in DOMAIN ledger
                    /\ IsPrefix(r.full.cid, ledger[r.hash].cid)

C6_Witness ==
    \E s \in Slots :
        /\ req[s].op = "resolve"
        /\ req[s].did = VALID_DID
        /\ req[s].status = 404
        /\ req[s].resp.error = NotFoundMsg

\* C7: once the ledger read of a Resolve has succeeded the request cannot
\* fail: it ends 200 with the ledger's record and either null metadata and a
\* fetch error (the fetch failed) or the metadata and no fetch error.
C7_FetchFailureIsPartialSuccess ==
    \A s \in Slots :
        (req[s].op = "resolve" /\ req[s].full.cid # <<>>) =>
            LET r == req[s]
            IN  /\ r.status \in {0, 200}
                /\ Done(r) =>
                    /\ r.status = 200
                    /\ r.resp.blockchainData = r.full
                    /\ r.resp.cid = Last(r.full.cid)
                    /\ \/ /\ r.served = NoSource
                          /\ r.resp.ipfsMetadata = NullBlob
                          /\ r.resp.ipfsError # NoMsg
                       \/ /\ r.served # NoSource
                          /\ r.resp.ipfsMetadata # NullBlob
                          /\ r.resp.ipfsError = NoMsg

C7_Witness ==
    \E s \in Slots :
        /\ req[s].op = "resolve"
        /\ req[s].status = 200
        /\ req[s].resp.ipfsMetadata = NullBlob
        /\ req[s].resp.ipfsError # NoMsg

\* C8 (as claimed): every get asks the own node first, then the fallbacks in
\* list order, one at a time, and fails only after all of them were asked.
C8_PrimaryAlwaysFirst ==
    \A s \in Slots :
        LET r == req[s]
        IN  /\ \A i \in DOMAIN r.attempts : r.attempts[i] = PRIMARY + i - 1
            /\ Cardinality(r.inflight) <= 1
            /\ r.resp.ipfsError # NoMsg => Len(r.attempts) = NumGateways + 1

\* C8 (amended): a get asks the own node first when IPFS_API_URL is set and
\* starts at the first fallback when it is not; the sources are asked in list
\* order, each at most once and one at a time; the get fails only after every
\* source from its first one to the last fallback was asked.
C8_SourcesInOrder ==
    \A s \in Slots :
        LET r == req[s]
            first == IF ipfsConfigured THEN PRIMARY ELSE 1
        IN  /\ \A i \in DOMAIN r.attempts : r.attempts[i] = first + i - 1
            /\ Cardinality(r.inflight) <= 1
            /\ r.inflight # {} => (r.pc = "fetch" /\ r.inflight = {Last(r.attempts)})
            /\ r.pc = "fetch" => r.inflight # {}
            /\ r.resp.ipfsError # NoMsg =>
                  (r.inflight = {} /\ Last(r.attempts) = NumGateways
                     /\ Len(r.attempts) = NumGateways + 1 - first)

C8_Witness ==
    \E s \in Slots :
        /\ ipfsConfigured
        /\ req[s].resp.ipfsError # NoMsg
        /\ req[s].attempts = <<0, 1, 2, 3, 4>>

\* C9: a get returns at the first source that succeeds, with that source's
\* bytes, and asks no later source; when the own node fails and the first
\* fallback succeeds, no other fallback is contacted.
C9_ShortCircuit ==
    \A s \in Slots :
        req[s].served # NoSource =>
            LET r == req[s]
            IN  /\ Done(r) /\ r.status = 200
                /\ r.inflight = {}
                /\ Last(r.attempts) = r.served
                /\ r.resp.ipfsMetadata = BlobOf(r.cid)
                /\ (r.served = 1 /\ r.attempts[1] = PRIMARY) =>
                      r.attempts = <<PRIMARY, 1>>

C9_Witness ==
    \E s \in Slots :
        /\ req[s].served = 1
        /\ req[s].attempts = <<PRIMARY, 1>>
        /\ req[s].status = 200

\* C10 (as claimed): every request that arrived is eventually answered.
C10_EveryRequestCompletes ==
    \A s \in Slots : (req[s].op # "none") ~> Done(req[s])

\* ---------------------------------------------------------------- no retries
CountOf(calls, names) == Cardinality({i \in DOMAIN calls : calls[i] \in names})

\* C11: no request is retried: each request issues at most one state-changing
\* ledger transaction and at most one upload, whether they succeed or fail,
\* and its transaction is applied to the ledger at most once.
C11_NoRetry ==
    \A s \in Slots :
        /\ CountOf(req[s].calls, CommitCalls) <= 1
        /\ CountOf(req[s].calls, {"add"}) <= 1
        /\ req[s].applied <= 1
        /\ req[s].op \in {"resolve", "check"} =>
              ~Called(req[s], CommitCalls \cup {"add"})

\* An update whose commit faulted after the upload: it ended with one upload
\* and one transaction.
C11_Witness ==
    \E s \in Slots :
        /\ req[s].op = "update" /\ Done(req[s]) /\ req[s].status = 500
        /\ IsFault(req[s].resp.error)
        /\ CountOf(req[s].calls, CommitCalls) = 1
        /\ CountOf(req[s].calls, {"add"}) = 1

\* ---------------------------------------------------------------- update
Failed(r) == Done(r) /\ r.status # 200

C13_UpdateVersions ==
    \A s \in Slots :
        (req[s].op = "update" /\ Called(req[s], {"add"})) =>
            LET r == req[s]
                n == Len(r.full.cid)
            IN  /\ IsPrefix(r.full.cid, GetRecord(ledger, r.hash).cid)
                /\ r.enhanced.version = n + 1
                /\ r.enhanced.previousVersion = n
                /\ r.status = 200 =>
                      /\ r.resp.version = n + 1
                      /\ r.resp.cid = CidOf(r.enhanced) /\ r.resp.cid \in store
                      /\ n >= 1 /\ r.resp.previousCid = r.full.cid[n]
                      /\ r.resp.previousCid # r.resp.cid

\* C14 (as claimed): an Update or a Transfer of a record id the ledger does not
\* hold fails with RecordNotFound (404) at the read of the full record, before
\* any upload and before any commit.
ReadFaulted(r) == Failed(r) /\ IsFault(r.resp.error) /\ Len(r.calls) = 1

C14_UnknownFailsAtGetFull ==
    \A s \in Slots :
        LET r == req[s]
        IN  /\ (r.op = "update" /\ Called(r, {"getFullRecord"}) /\ r.pc # "read"
                   /\ ~ReadFaulted(r) /\ r.full.cid = <<>>) =>
                  /\ Done(r) /\ r.status = 404
                  /\ ~Called(r, {"add"}) /\ ~Called(r, CommitCalls)
            /\ (r.op = "transfer" /\ r.calls # <<>>
                   /\ GetRecord(ledger, r.hash).cid = <<>>) =>
                  /\ r.calls[1] = "getFullRecord"
                  /\ ~Called(r, CommitCalls)

\* ---------------------------------------------------------------- transfer
\* C15 (as claimed): a Transfer the ledger rejects because the caller is not
\* the current owner is answered 403, one it rejects because the new owner is
\* already in the owner history is answered 400; neither changes the owner
\* history nor is answered with success.
C15_RejectedTransfers ==
    \A s \in Slots :
        LET r == req[s]
        IN  r.op = "transfer" =>
              /\ r.verdict = REVERT_NOT_OWNER =>
                    Done(r) /\ r.status = 403 /\ r.applied = 0
              /\ r.verdict = REVERT_DUP_OWNER =>
                    Done(r) /\ r.status = 400 /\ r.applied = 0

\* C16: once a record registered by the wallet has been transferred to B its
\* owner history is exactly [wallet, B] (and later begins with it, when B
\* passes the record on), and every Transfer of that record the
\* wallet submits afterwards is rejected and answered 403, whatever the new
\* owner, leaving the ledger as it is (a transport fault apart).
C16_FormerOwnerDenied ==
    /\ [][\A s \in Slots :
            (req[s].op = "transfer" /\ req'[s].applied # req[s].applied) =>
                GetRecord(ledger', req[s].hash).owner = <<WALLET, req[s].newOwner>>]_vars
    /\ [](\A s \in Slots :
            (req[s].op = "transfer" /\ req[s].applied = 1) =>
                IsPrefix(<<WALLET, req[s].newOwner>>,
                         GetRecord(ledger, req[s].hash).owner))
    /\ [][\A s \in Slots :
            (/\ req[s].op = "transfer" /\ req[s].pc = "submit"
             /\ req'[s].pc # "submit"
             /\ Len(GetRecord(ledger, req[s].hash).owner) >= 2
             /\ ~IsFault(req'[s].resp.error)) =>
                /\ req'[s].status = 403 /\ req'[s].applied = 0
                /\ req'[s].verdict = REVERT_NOT_OWNER
                /\ ledger' = ledger]_vars

\* A transfer to B answered 200 and a later one by the wallet answered 403.
C16_Witness ==
    \E s, t \in Slots :
        /\ req[s].op = "transfer" /\ req[s].status = 200
        /\ GetRecord(ledger, req[s].hash).owner = <<WALLET, ADDR_B>>
        /\ req[t].op = "transfer" /\ req[t].status = 403
        /\ req[t].hash = req[s].hash
        /\ Called(req[t], {"transferOwnership"})

\* C17: the success response of a Transfer is built from reads made after its
\* own transaction was mined: the owner history it read holds the new owner,
\* previousOwner is the entry before the last of that history ("N/A" below two
\* entries), totalOwners its length, and currentOwner the owner read after it.
C17_ResponseFromReread ==
    \A s \in Slots :
        (req[s].op = "transfer" /\ req[s].status = 200) =>
            LET r == req[s]
                h == r.full.owner
                owners == GetRecord(ledger, r.hash).owner
            IN  /\ r.applied = 1
                /\ r.calls = <<"transferOwnership", "wait", "getFullRecord",
                               "getLatestRecord">>
                /\ IsPrefix(h, owners) /\ InSeq(r.newOwner, h)
                /\ r.resp.totalOwners = Len(h)
                /\ r.resp.previousOwner = IF Len(h) < 2 THEN NA ELSE h[Len(h) - 1]
                /\ \E i \in Len(h)..Len(owners) : r.resp.currentOwner = owners[i]

\* A transfer of the wallet's record to B answered 200 with previous owner
\* the wallet, current owner B and two owners.
C17_Witness ==
    \E s \in Slots :
        /\ req[s].op = "transfer" /\ req[s].status = 200
        /\ req[s].resp.previousOwner = WALLET
        /\ req[s].resp.currentOwner = ADDR_B
        /\ req[s].resp.totalOwners = 2

\* ---------------------------------------------------------------- register, resolve
\* C18 (as claimed): after a Register answered 200 with DID D and address C,
\* and while the record it created has had no Update and no Transfer, a
\* Resolve of D reads that record from the ledger (a transport fault apart):
\* current address C, content history [C], owner history [wallet]; and a
\* Resolve that has read its record is answered 200.
C18_RegisterThenResolve ==
    /\ [](\A t \in Slots :
            (req[t].op = "resolve" /\ Done(req[t]) /\ Called(req[t], {"fetch"}))
                => req[t].status = 200)
    /\ [][\A s, t \in Slots :
            (/\ req[s].op = "register" /\ req[s].status = 200
             /\ req[t].op = "resolve" /\ req[t].did = req[s].resp.did
             /\ req[t].pc = "read" /\ req'[t].pc # "read"
             /\ ~IsFault(req'[t].resp.error)
             /\ Len(GetRecord(ledger, req[s].minedId).cid) = 1
             /\ Len(GetRecord(ledger, req[s].minedId).owner) = 1) =>
                /\ req'[t].pc = "fetch"
                /\ req'[t].cid = req[s].resp.cid
                /\ req'[t].full.cid = <<req[s].resp.cid>>
                /\ req'[t].full.owner = <<WALLET>>]_vars

\* ---------------------------------------------------------------- faults
\* C19 (as claimed): a request that failed on a transport or decoding fault of
\* a ledger call is answered 500 on every endpoint, never 404, 403 or 400,
\* whatever the text of the fault.
C19_FaultIs500 ==
    \A s \in Slots :
        (Done(req[s]) /\ IsFault(req[s].resp.error)) => req[s].status = 500

\* ---------------------------------------------------------------- lifecycle
OthersKept(id) ==
    \A o \in DOMAIN ledger' \ {id} : o \in DOMAIN ledger /\ ledger'[o] = ledger[o]

\* C20: the ledger only grows, field by field.  No step removes a record,
\* shortens or rewrites a history or changes createdAt, and only the mining of
\* a request's transaction changes the ledger: a Register creates one record
\* with both histories of length 1, an Update appends one content address and
\* leaves the owner history, a Transfer appends exactly the new owner and
\* leaves the content history.
C20_AppendOnly ==
    [][/\ \A id \in DOMAIN ledger :
            /\ id \in DOMAIN ledger'
            /\ IsPrefix(ledger[id].cid, ledger'[id].cid)
            /\ IsPrefix(ledger[id].owner, ledger'[id].owner)
            /\ ledger'[id].created_at = ledger[id].created_at
       /\ \A id \in DOMAIN ledger' \ DOMAIN ledger :
            Len(ledger'[id].cid) = 1 /\ Len(ledger'[id].owner) = 1
       /\ (ledger' # ledger /\ req' # req) =>
            \E s \in Slots : req[s].pc = "pending" /\ req'[s].applied = 1
       /\ \A s \in Slots :
            req'[s].applied # req[s].applied =>
              LET r == req[s]
                  id == req'[s].minedId
                  old == GetRecord(ledger, id)
                  new == GetRecord(ledger', id)
              IN  /\ OthersKept(id)
                  /\ r.op = "register" =>
                        /\ id \notin DOMAIN ledger
                        /\ new.cid = <<r.cid>> /\ new.owner = <<WALLET>>
                  /\ r.op = "update" =>
                        /\ id = r.hash /\ id \in DOMAIN ledger
                        /\ Len(new.cid) = Len(old.cid) + 1
                        /\ new.owner = old.owner
                  /\ r.op = "transfer" =>
                        /\ id = r.hash /\ id \in DOMAIN ledger
                        /\ new.owner = Append(old.owner, r.newOwner)
                        /\ new.cid = old.cid]_vars

\* A record that has been updated once and transferred once since its creation.
C20_Witness ==
    \E id \in DOMAIN ledger :
        /\ Len(ledger[id].cid) = 2 /\ Len(ledger[id].owner) = 2
        /\ ledger[id].updated_at > ledger[id].created_at

\* ---------------------------------------------------------------- concurrency
\* C21 (as claimed): no two successful Updates of one record return the same
\* version, and the version an Update returns and writes into its metadata is
\* the position of its new address in the record's content-address history
\* (stated for Updates of a record that existed when they read it).
C21_UniqueVersions ==
    /\ \A s \in Slots :
          (req[s].op = "update" /\ req[s].status = 200
             /\ req[s].full.cid # <<>>) =>
              LET h == GetRecord(ledger, req[s].hash).cid
                  v == req[s].resp.version
              IN  /\ req[s].enhanced.version = v
                  /\ v \in DOMAIN h /\ h[v] = req[s].resp.cid
    /\ \A s, t \in Slots :
          (/\ s # t
           /\ req[s].op = "update" /\ req[s].status = 200
           /\ req[t].op = "update" /\ req[t].status = 200
           /\ req[s].hash = req[t].hash) =>
              req[s].resp.version # req[t].resp.version

\* C22 (as claimed): the current owner of a successful Transfer response is the
\* last entry of the owner history from which its totalOwners and
\* previousOwner were computed.
C22_SingleLedgerState ==
    \A s \in Slots :
        (req[s].op = "transfer" /\ req[s].status = 200) =>
            /\ req[s].resp.totalOwners = Len(req[s].full.owner)
            /\ req[s].resp.currentOwner = Last(req[s].full.owner)

\* ---------------------------------------------------------------- check
\* C23 (as claimed): a Check that the ledger answered is answered 200; for a
\* DID that Resolve accepts it reports exists = true exactly when the record
\* the DID decodes to has a content address (when Resolve finds it), and so
\* for every DID that a successful Register returned.
C23_CheckAgrees ==
    [][\A t \in Slots :
         (/\ req[t].op = "check" /\ req[t].pc = "read" /\ req'[t].pc # "read"
          /\ ~IsFault(req'[t].resp.error)) =>
            LET did == req[t].did
                parts == Split(did)
            IN  /\ req'[t].status = 200
                /\ ~InvalidFormat(parts) =>
                      req'[t].resp.exists
                        = (GetRecord(ledger, RecordIdOf(parts)).cid # <<>>)
                /\ \A s \in Slots :
                      (/\ req[s].op = "register" /\ req[s].status = 200
                       /\ req[s].resp.did = did
                       /\ did = FormatDid(req[s].minedId)) =>
                          req'[t].resp.exists]_vars

\* ---------------------------------------------------------------- read-only
Reads == {"resolve", "check"}

\* C24: Resolve and Check are read-only: on every path they issue no commit
\* and no upload, and no step of theirs changes the ledger or the content
\* store.
C24_ReadOnly ==
    /\ [](\A s \in Slots :
            req[s].op \in Reads =>
                /\ ~Called(req[s], CommitCalls \cup {"add"})
                /\ req[s].tx = NoTx /\ req[s].applied = 0)
    /\ [][\A s \in Slots :
            (req'[s].op \in Reads /\ req'[s] # req[s]) =>
                ledger' = ledger /\ height' = height /\ store' = store]_vars

\* A Resolve that went through every source of the fetch and a failed Resolve
\* or Check, on a ledger that holds a record.
C24_Witness ==
    \E s, t \in Slots :
        /\ req[s].op = "resolve" /\ Done(req[s])
        /\ Len(req[s].attempts) >= NumGateways
        /\ req[t].op \in Reads /\ Failed(req[t])
        /\ DOMAIN ledger # {}

\* ---------------------------------------------------------------- owners
Entries(h) == {h[i] : i \in DOMAIN h}

\* C25: no address occurs twice in a record's owner history, so its length is
\* the number of distinct owners; an address that has held a record never
\* becomes its current owner again, and a Transfer to an address of the
\* history is never answered with success.
C25_NoDuplicateOwners ==
    /\ [](\A id \in DOMAIN ledger :
            LET h == ledger[id].owner
            IN  /\ \A i, j \in DOMAIN h : h[i] = h[j] => i = j
                /\ Len(h) = Cardinality(Entries(h)))
    /\ [][\A id \in DOMAIN ledger :
            ledger'[id].owner # ledger[id].owner =>
                Last(ledger'[id].owner) \notin Entries(ledger[id].owner)]_vars
    /\ [][\A s \in Slots :
            (/\ req[s].op = "transfer" /\ req[s].pc = "submit"
             /\ req'[s].pc # "submit"
             /\ InSeq(req[s].newOwner, GetRecord(ledger, req[s].hash).owner)) =>
                Failed(req'[s]) /\ ledger' = ledger]_vars

\* A record that has had three owners, and a Transfer back to the wallet that
\* was refused.
C25_Witness ==
    /\ \E id \in DOMAIN ledger : ledger[id].owner = <<WALLET, ADDR_B, ADDR_C>>
    /\ \E s \in Slots :
          /\ req[s].op = "transfer" /\ req[s].newOwner = WALLET
          /\ Failed(req[s]) /\ Called(req[s], {"transferOwnership"})

\* ---------------------------------------------------------------- integrity
Before(calls, a, b) ==
    \E i, j \in DOMAIN calls : i < j /\ calls[i] = a /\ calls[j] \in b

\* C26: every content address in a record's history is the address of a blob
\* the content store holds, and the address a Register or an Update has
\* committed is the one its own upload returned before the commit was sent.
C26_CommittedIsUploaded ==
    /\ \A id \in DOMAIN ledger :
          \A i \in DOMAIN ledger[id].cid : ledger[id].cid[i] \in store
    /\ \A s \in Slots :
          (req[s].op \in {"register", "update"} /\ req[s].applied = 1) =>
              LET r == req[s]
              IN  /\ r.tx.cid = r.cid /\ r.cid = CidOf(r.enhanced)
                  /\ r.cid \in store
                  /\ Before(r.calls, "add", CommitCalls)
                  /\ InSeq(r.cid, GetRecord(ledger, r.minedId).cid)

\* An Update whose commit the ledger refused after its upload: the blob is in
\* the store and in no history, next to a committed record.
C26_Witness ==
    \E s \in Slots :
        /\ req[s].op = "update" /\ Failed(req[s]) /\ req[s].applied = 0
        /\ req[s].cid \in store
        /\ \A id \in DOMAIN ledger : ~InSeq(req[s].cid, ledger[id].cid)
        /\ \E t \in Slots : req[t].op = "register" /\ req[t].applied = 1

====
